---- MODULE Spec2Model ----
(***************************************************************************)
(* Model of heart_api.py: the analyze_heart_sound pipeline, the pyplot     *)
(* figure registry it draws into, and the /analyze request handler.        *)
(*                                                                         *)
(* Units.  Sample indices are samples at sr = 1000 Hz, so index/sr seconds *)
(* is the index read as milliseconds.  A probability p is the integer      *)
(* p * 10000.  A heart rate is the exact fraction num/den BPM.  Rounded    *)
(* values are integers: heart_rate in tenths of a BPM, probability in      *)
(* thousandths.                                                            *)
(*                                                                         *)
(* The numerical kernels (butter/filtfilt, hilbert, find_peaks, MFCC, the  *)
(* scaler and the classifier) are not recomputed.  A recording carries     *)
(* what they yield on it: the peak indices find_peaks returns and the      *)
(* probability the classifier gives each cycle.                            *)
(***************************************************************************)
EXTENDS Integers, Sequences, FiniteSets, TLC

VARIABLES
    artifacts,   \* the two .pkl files on disk: "present" or "missing"
    upload,      \* upload[r]: the recording request r posted
    pc,          \* pc[r]: position of request r in analyze / analyze_heart_sound
    frame,       \* frame[r]: the locals of request r's analyze_heart_sound call
    reached,     \* reached[r]: the pipeline stages request r has executed
    figs,        \* pyplot's registry of open figures (process-wide)
    figsAtCall,  \* figsAtCall[r]: figs when r's analyze_heart_sound was called
    outcome,     \* outcome[r]: how r's analyze_heart_sound call ended
    resp,        \* resp[r]: the HTTP response of request r
    started,     \* number of requests received so far
    disk,        \* disk[name]: the recording stored as uploads/<name>
    fname,       \* fname[r]: the filename of request r's upload
    loads,       \* number of artifacts deserialized by joblib.load so far
    hrArg,       \* argument of a direct classify_hr_only call
    hrOut,       \* status returned by that call ("" before the call)
    mfccIn,      \* frame count of the MFCC matrix in a direct extract_mfcc call
    mfccOut,     \* vector returned by that call (<<>> before the call)
    emptyState,  \* browser: style.display of #emptyState
    resultsActive,  \* browser: #resultsContent has class "active"
    loadingActive,  \* browser: #loadingState has class "active"
    submission,  \* browser: submission[s]: progress of the s-th form submission
    analysisCount   \* browser: the analysisCount counter

classifyVars == <<hrArg, hrOut>>

mfccVars == <<mfccIn, mfccOut>>

clientVars == <<emptyState, resultsActive, loadingActive, submission,
                analysisCount>>

\* everything outside the request pipeline
sideVars == <<classifyVars, mfccVars, clientVars>>

pipeVars == <<artifacts, upload, pc, frame, reached, figs, figsAtCall,
              outcome, resp, started, disk, fname, loads>>

vars == <<pipeVars, sideVars>>

(***************************************************************************)
(* Bounds                                                                  *)
(***************************************************************************)
NumReq == 3

MaxHrTenths == 2000

MaxInFlight == 2

OverlapReq == 2

MaxSub == 3

MaxFrames == 262

Req == 1..NumReq

Sub == 1..MaxSub

\* the filenames uploads arrive under
UploadNames == {"heart.wav", "other.wav"}

(***************************************************************************)
(* Program constants                                                       *)
(***************************************************************************)
SR == 1000


(***************************************************************************)
(* Recordings: the uploads the requests are drawn from.                    *)
(*   wave   "empty"  a decodable file with zero samples                    *)
(*          "silent" samples all zero                                      *)
(*          "signal" samples with a nonzero maximum                        *)
(*   peaks  the indices find_peaks returns on the recording's envelope;    *)
(*          strictly increasing and at least 0.4*sr = 400 samples apart    *)
(*   probs  the classifier's probability for each of the cycles            *)
(***************************************************************************)
Sig(peaks, probs) == [wave |-> "signal", peaks |-> peaks, probs |-> probs]

RecEmpty == [wave |-> "empty", peaks |-> <<>>, probs |-> <<>>]

RecSilent == [wave |-> "silent", peaks |-> <<>>, probs |-> <<>>]

Recordings ==
    { RecEmpty, RecSilent,
      Sig(<<500>>, <<>>),
      Sig(<<500, 1500>>, <<>>),
      Sig(<<100, 1100, 2100, 3100, 4100>>, <<1000, 1000, 1000>>),
      Sig(<<100, 1100, 2100, 3100, 4100>>, <<1000, 6000, 1000>>),
      Sig(<<100, 1100, 2100, 3100, 4100>>, <<200, 6000, 100>>),
      Sig(<<100, 500, 900>>, <<6000>>),
      Sig(<<100, 1300, 2500>>, <<2999>>),
      Sig(<<100, 1300, 2500>>, <<3000>>),
      Sig(<<100, 700, 1300, 1900>>, <<4499, 1000>>),
      Sig(<<100, 700, 1300, 1900>>, <<1000, 4500>>),
      Sig(<<100, 699, 1298>>, <<5999>>),
      Sig(<<100, 1301, 2502>>, <<9000>>) }

\* recordings of a steady 150 BPM rhythm: n peaks exactly 400 samples apart,
\* every cycle scored 0.60
Steady(n) ==
    Sig([i \in 1..n |-> 100 + 400 * (i - 1)], [i \in 1..(n - 2) |-> 6000])

SteadyRecordings == {Steady(3), Steady(7), Steady(51)}

\* recordings whose cycle probabilities lie on both sides of every colour
\* threshold, each with a maximum of at least 0.60
ColourRecordings ==
    { Sig(<<100, 700, 1300, 1900>>, <<4500, 6000>>),
      Sig(<<100, 700, 1300, 1900>>, <<4499, 6000>>),
      Sig(<<100, 700, 1300, 1900>>, <<4501, 6000>>),
      Sig(<<100, 700, 1300, 1900>>, <<2999, 9000>>),
      Sig(<<100, 700, 1300, 1900>>, <<3000, 9000>>) }

\* the uploads of overlapping requests
OverlapRecordings ==
    { Sig(<<100, 500, 900>>, <<6000>>),
      Sig(<<100, 1301, 2502>>, <<9000>>) }

(***************************************************************************)
(* numpy helpers                                                           *)
(***************************************************************************)
RECURSIVE SeqSum(_)
SeqSum(s) == IF s = <<>> THEN 0 ELSE Head(s) + SeqSum(Tail(s))

\* np.diff: consecutive differences
NpDiff(s) == [i \in 1..(Len(s) - 1) |-> s[i + 1] - s[i]]

NpMaxMut(s) == s[1]

\* np.max over a non-empty array
RECURSIVE NpMax(_)
NpMax(s) ==
    IF Len(s) = 1 THEN s[1]
    ELSE LET m == NpMax(Tail(s)) IN IF Head(s) > m THEN Head(s) ELSE m

\* round(): the integer nearest num/den, ties to the even one (den > 0)
RoundHalfEven(num, den) ==
    LET q == num \div den
        r == num % den
    IN  IF 2 * r < den THEN q
        ELSE IF 2 * r > den THEN q + 1
        ELSE IF q % 2 = 0 THEN q ELSE q + 1

(***************************************************************************)
(* classify_hr_only.  hr is a float64: the fraction hr.num / hr.den        *)
(* (hr.den > 0) moved by hr.skew rounding steps, hr.skew in {-1, 0, 1}.    *)
(* A rounding step is far smaller than 1/hr.den, so it decides a           *)
(* comparison only when the fraction equals the bound.                     *)
(***************************************************************************)
\* hr < k
HrLt(hr, k) == hr.num < k * hr.den \/ (hr.num = k * hr.den /\ hr.skew < 0)

\* hr <= k
HrLe(hr, k) == hr.num < k * hr.den \/ (hr.num = k * hr.den /\ hr.skew <= 0)

classify_hr_onlyMut(hr) ==
    IF HrLt(hr, 50) THEN <<"Severe Bradycardia", "red">>
    ELSE IF HrLt(hr, 60) THEN <<"Mild Bradycardia", "orange">>
    ELSE IF HrLt(hr, 100) THEN <<"Normal Heart Rate", "green">>
    ELSE IF HrLe(hr, 120) THEN <<"Mild Tachycardia", "orange">>
    ELSE IF HrLe(hr, 150) THEN <<"Moderate Tachycardia", "red">>
    ELSE <<"Severe Tachycardia", "darkred">>

classify_hr_only(hr) ==
    IF HrLt(hr, 50)
    THEN <<"Severe Bradycardia", "red">>
    ELSE IF ~HrLt(hr, 50) /\ HrLt(hr, 60)
    THEN <<"Mild Bradycardia", "orange">>
    ELSE IF ~HrLt(hr, 60) /\ HrLe(hr, 100)
    THEN <<"Normal Heart Rate", "green">>
    ELSE IF ~HrLe(hr, 100) /\ HrLe(hr, 120)
    THEN <<"Mild Tachycardia", "orange">>
    ELSE IF ~HrLe(hr, 120) /\ HrLe(hr, 150)
    THEN <<"Moderate Tachycardia", "red">>
    ELSE <<"Severe Tachycardia", "darkred">>

(***************************************************************************)
(* Pieces of analyze_heart_sound                                           *)
(***************************************************************************)
\* find_peaks on the envelope: every comparison with NaN is false, so an
\* all-NaN envelope has no local maximum
FindPeaks(envelope, rec) == IF envelope = "nan" THEN <<>> ELSE rec.peaks

EnoughBeatsMut(peaks) == ~(Len(peaks) < 2)

\* the negation of `len(peaks) < 3`
EnoughBeats(peaks) == ~(Len(peaks) < 3)

\* model.predict_proba(X)[:, 1] for the n feature rows of the recording's
\* cycles: one probability per row
PredictProba(rec, n) ==
    [i \in 1..n |->
        rec.probs[IF i <= Len(rec.probs) THEN i ELSE Len(rec.probs)]]

\* How the float64 evaluation of 60 / np.mean(d / sr) lies against the exact
\* quotient where that quotient equals a bound of the heart-rate table:
\* 1 above, 0 equal, -1 below.  Of the interval series of Recordings, 2 x 400,
\* 4 x 1000, 2 x 1200 and 3 x 600 evaluate exactly (150.0, 60.0, 50.0,
\* 100.0).  The sum of fifty 0.4's rounds below 20, the mean is
\* 0.3999999999999999 and the quotient 150.00000000000003.
Float64Skew(d) ==
    IF Len(d) = 50 /\ \A i \in DOMAIN d : d[i] = 400 THEN 1 ELSE 0

\* hr = 60 / np.mean(np.diff(peaks)/sr)
HeartRateOf(peaks) ==
    LET d == NpDiff(peaks)
    IN  [num |-> 60 * SR * Len(d), den |-> SeqSum(d), skew |-> Float64Skew(d)]

CyclesOfMut(peaks) ==
    [i \in 1..(Len(peaks) - 1) |-> <<peaks[i], peaks[i + 1]>>]

\* cycles: cycle i is the slice filtered[peaks[i]:peaks[i+2]], kept as its
\* bounds <<first index, index past the last>>
CyclesOf(peaks) ==
    [i \in 1..(Len(peaks) - 2) |-> <<peaks[i], peaks[i + 2]>>]

\* cycle_times: (peaks[i]/sr, peaks[i+2]/sr), in milliseconds
CycleTimesOf(peaks) ==
    [i \in 1..(Len(peaks) - 2) |->
        <<(peaks[i] * 1000) \div SR, (peaks[i + 2] * 1000) \div SR>>]

\* the chain with t and max_amp assigned after it, in every tier
RiskOfUnguarded(max_prob) ==
    IF max_prob < 3000
    THEN [final_prediction |-> "Normal Heart Sound", risk_level |-> "low",
          binds |-> {"t", "max_amp"}]
    ELSE IF max_prob < 4500
    THEN [final_prediction |-> "Murmur / Borderline", risk_level |-> "medium",
          binds |-> {"t", "max_amp"}]
    ELSE IF max_prob < 6000
    THEN [final_prediction |-> "Mild Abnormality", risk_level |-> "high",
          binds |-> {"t", "max_amp"}]
    ELSE [final_prediction |-> "Severe Abnormality", risk_level |-> "critical",
          binds |-> {"t", "max_amp"}]

RiskOfMut(max_prob) ==
    IF max_prob <= 3000
    THEN [final_prediction |-> "Normal Heart Sound", risk_level |-> "low",
          binds |-> {}]
    ELSE IF max_prob <= 4500
    THEN [final_prediction |-> "Murmur / Borderline", risk_level |-> "medium",
          binds |-> {}]
    ELSE IF max_prob <= 6000
    THEN [final_prediction |-> "Mild Abnormality", risk_level |-> "high",
          binds |-> {}]
    ELSE [final_prediction |-> "Severe Abnormality", risk_level |-> "critical",
          binds |-> {"t", "max_amp"}]

\* the if/elif chain on max_prob; binds: the further locals the taken
\* branch assigns (t and max_amp are assigned inside the else branch)
RiskOf(max_prob) ==
    IF max_prob < 3000
    THEN [final_prediction |-> "Normal Heart Sound", risk_level |-> "low",
          binds |-> {}]
    ELSE IF max_prob < 4500
    THEN [final_prediction |-> "Murmur / Borderline", risk_level |-> "medium",
          binds |-> {}]
    ELSE IF max_prob < 6000
    THEN [final_prediction |-> "Mild Abnormality", risk_level |-> "high",
          binds |-> {}]
    ELSE [final_prediction |-> "Severe Abnormality", risk_level |-> "critical",
          binds |-> {"t", "max_amp"}]

(***************************************************************************)
(* extract_mfcc.  The MFCC matrix of a cycle has N_MFCC rows and one       *)
(* column (frame) per hop of the cycle; Coef(i, j) stands for the          *)
(* coefficient librosa computes in row i of frame j, a nonzero value that  *)
(* tells every position of the matrix from every other and from padding.  *)
(***************************************************************************)
N_MFCC == 13

MAX_LEN == 260

Coef(i, j) == 1000 * i + j

\* librosa.feature.mfcc(...) on a cycle of f frames: shape (N_MFCC, f)
MfccMatrix(f) == [i \in 1..N_MFCC |-> [j \in 1..f |-> Coef(i, j)]]

\* mfcc.flatten(): row after row
Flatten(m, width) ==
    [k \in 1..(Len(m) * width) |->
        m[((k - 1) \div width) + 1][((k - 1) % width) + 1]]

extract_mfccMut(f) ==
    LET mfcc == MfccMatrix(f)
        fixed == [i \in 1..N_MFCC |->
                     IF f > MAX_LEN THEN mfcc[i]
                     ELSE mfcc[i] \o [k \in 1..(MAX_LEN - f) |-> 0]]
    IN  Flatten(fixed, Len(fixed[1]))

\* mfcc[:, :max_len] if mfcc.shape[1] > max_len else np.pad(mfcc, ((0,0),
\* (0, max_len - mfcc.shape[1]))), then flatten()
extract_mfcc(f) ==
    LET mfcc == MfccMatrix(f)
        fixed == [i \in 1..N_MFCC |->
                     IF f > MAX_LEN THEN SubSeq(mfcc[i], 1, MAX_LEN)
                     ELSE mfcc[i] \o [k \in 1..(MAX_LEN - f) |-> 0]]
    IN  Flatten(fixed, Len(fixed[1]))

(***************************************************************************)
(* The per-cycle colours of the two figures                                *)
(***************************************************************************)
\* plot_sound_timeline: the colour of the bar of a cycle
BarColor(prob) ==
    IF prob < 3000 THEN "green"
    ELSE IF prob < 4500 THEN "orange"
    ELSE "red"

BarColors(probs) == [i \in DOMAIN probs |-> BarColor(probs[i])]

\* the waveform figure: sys_color and dia_color of a cycle's two spans
SpanColor(prob) ==
    <<IF prob > 4500 THEN "red" ELSE "lightblue",
      IF prob > 4500 THEN "darkred" ELSE "plum">>

SpanColors(probs) == [i \in DOMAIN probs |-> SpanColor(probs[i])]

\* generateRecommendations (client): the heart-rate recommendation shown
\* for a returned heart_rate, in tenths of a BPM
HrRecommendation(heart_rate) ==
    IF heart_rate < 600 THEN "bradycardia"
    ELSE IF heart_rate > 1000 THEN "tachycardia"
    ELSE "none"

(***************************************************************************)
(* State shapes                                                            *)
(***************************************************************************)
NoUpload == [wave |-> "none", peaks |-> <<>>, probs |-> <<>>]

\* the locals of analyze_heart_sound before any is assigned; bound is the
\* set of local names that have been assigned
NoFrame ==
    [loaded |-> NoUpload, audio |-> "none", filtered |-> "none", envelope |-> "none",
     peaks |-> <<>>, hr |-> [num |-> 0, den |-> 1, skew |-> 0],
     hr_status |-> "", hr_color |-> "",
     cycles |-> <<>>, cycle_times |-> <<>>, probs |-> <<>>, max_prob |-> 0,
     final_prediction |-> "", risk_level |-> "",
     images |-> <<>>, bound |-> {}]

\* kind: "none"      the call has not ended
\*       "result"    returned the result dict
\*       "error"     returned a dict with the single key "error"
\*       "exception" raised exc with message error
NoOutcome ==
    [kind |-> "none", exc |-> "", error |-> "",
     prediction |-> "", probability |-> 0, heart_rate |-> 0,
     hr_status |-> "", risk_level |-> "", images |-> <<>>, num_cycles |-> 0]

NoResp == [status |-> 0, body |-> NoOutcome]

\* what a figure shows
BlankFigure ==
    [kind |-> "blank", peaks |-> <<>>, spans |-> <<>>, probs |-> <<>>,
     colors |-> <<>>, hr10 |-> 0, hr_status |-> ""]

FigNums == {f.num : f \in figs}

\* pyplot numbers a new figure max(existing numbers) + 1, or 1 if none
NextFigNum ==
    IF figs = {} THEN 1
    ELSE (CHOOSE n \in FigNums : \A m \in FigNums : m <= n) + 1

\* plt.get_fignums(): the open figure numbers in increasing order
RECURSIVE SortedNums(_)
SortedNums(S) ==
    IF S = {} THEN <<>>
    ELSE LET n == CHOOSE x \in S : \A y \in S : x <= y
         IN  <<n>> \o SortedNums(S \ {n})

FigureNumbered(n) == CHOOSE f \in figs : f.num = n

(***************************************************************************)
(* Init                                                                    *)
(***************************************************************************)
InitPipeline ==
    /\ artifacts \in {"present", "missing"}
    /\ upload = [r \in Req |-> NoUpload]
    /\ pc = [r \in Req |-> "idle"]
    /\ frame = [r \in Req |-> NoFrame]
    /\ reached = [r \in Req |-> {}]
    /\ figs = {}
    /\ figsAtCall = [r \in Req |-> {}]
    /\ outcome = [r \in Req |-> NoOutcome]
    /\ resp = [r \in Req |-> NoResp]
    /\ started = 0
    /\ disk = [n \in UploadNames |-> NoUpload]
    /\ fname = [r \in Req |-> ""]
    /\ loads = 0

\* no direct classify_hr_only call is made
NoClassifyCall ==
    /\ hrArg = [num |-> 0, den |-> 1, skew |-> 0]
    /\ hrOut = ""

\* no direct extract_mfcc call is made
NoMfccCall ==
    /\ mfccIn = 0
    /\ mfccOut = <<>>

\* a form submission not yet made
\*   stage  "idle", "fetching" (awaiting fetch), "timer" (response parsed,
\*          the 500 ms timeout pending), "finished"
\*   data   "none", "result" (a body without an error field), "error" (a
\*          body with an error field), "failed" (fetch or json() rejected)
\*   order  the position of its timeout among the timeouts set so far
NoSubmission == [stage |-> "idle", data |-> "none", order |-> 0]

\* the page as served: the empty-state panel shows, nothing submitted
InitClient ==
    /\ emptyState = "block"
    /\ resultsActive = FALSE
    /\ loadingActive = FALSE
    /\ submission = [s \in Sub |-> NoSubmission]
    /\ analysisCount = 0

Init ==
    /\ InitPipeline
    /\ NoClassifyCall
    /\ NoMfccCall
    /\ InitClient

(***************************************************************************)
(* How a step of analyze_heart_sound ends                                  *)
(***************************************************************************)
\* the step completes and control moves to the next statement
Goes(r, stage, next, newFrame) ==
    /\ pc' = [pc EXCEPT ![r] = next]
    /\ frame' = [frame EXCEPT ![r] = newFrame]
    /\ reached' = [reached EXCEPT ![r] = @ \cup {stage}]
    /\ outcome' = outcome

\* the step raises: the call ends and control is in analyze's except clause
Raises(r, stage, exc, msg) ==
    /\ pc' = [pc EXCEPT ![r] = "respond"]
    /\ frame' = frame
    /\ reached' = [reached EXCEPT ![r] = @ \cup {stage}]
    /\ outcome' = [outcome EXCEPT ![r] =
                      [NoOutcome EXCEPT !.kind = "exception",
                                        !.exc = exc, !.error = msg]]

\* the step is a return statement
Returns(r, stage, newFrame, value) ==
    /\ pc' = [pc EXCEPT ![r] = "respond"]
    /\ frame' = [frame EXCEPT ![r] = newFrame]
    /\ reached' = [reached EXCEPT ![r] = @ \cup {stage}]
    /\ outcome' = [outcome EXCEPT ![r] = value]

Bind(f, names) == [f EXCEPT !.bound = @ \cup names]

(***************************************************************************)
(* analyze(): request received, upload saved, analyze_heart_sound called   *)
(***************************************************************************)
\* path = os.path.join(UPLOAD_DIR, file.filename); file.save(path): the
\* upload replaces whatever uploads/<name> held; then the call starts
Accept(r, rec, name) ==
    /\ r = started + 1
    /\ pc[r] = "idle"
    /\ started' = r
    /\ upload' = [upload EXCEPT ![r] = rec]
    /\ fname' = [fname EXCEPT ![r] = name]
    /\ disk' = [disk EXCEPT ![name] = rec]
    /\ pc' = [pc EXCEPT ![r] = "load_artifacts"]
    /\ figsAtCall' = [figsAtCall EXCEPT ![r] = figs]
    /\ UNCHANGED <<artifacts, loads, frame, reached, figs, outcome, resp,
                   sideVars>>

\* a request arriving while no other request is being handled
Receive(r, rec, name) ==
    /\ \A q \in Req : pc[q] \in {"idle", "done"}
    /\ Accept(r, rec, name)

\* one of the first OverlapReq requests, arriving while at most
\* MaxInFlight - 1 others are being handled (the development server handles
\* each request in a thread of its own)
ReceiveOverlapping(r, rec, name) ==
    /\ r <= OverlapReq
    /\ Cardinality({q \in Req : pc[q] \notin {"idle", "done"}}) < MaxInFlight
    /\ Accept(r, rec, name)

(***************************************************************************)
(* analyze_heart_sound, statement by statement                             *)
(***************************************************************************)
\* model = joblib.load(model_path); scaler = joblib.load(scaler_path)
LoadArtifacts(r) ==
    /\ pc[r] = "load_artifacts"
    /\ IF artifacts = "present"
       THEN /\ loads' = loads + 2
            /\ Goes(r, "load_artifacts", "load_audio",
                    Bind(frame[r], {"model", "scaler"}))
       ELSE /\ loads' = loads
            /\ Raises(r, "load_artifacts", "FileNotFoundError",
                      "No such file or directory: best_model_XGBoost.pkl")
    /\ UNCHANGED <<artifacts, disk, fname, upload, figs, figsAtCall, resp, started,
                   sideVars>>

\* audio, sr = librosa.load(audio_path, ...): reads what uploads/<name>
\* holds now; resampled to 1000 Hz when sr differs
LoadAudio(r) ==
    /\ pc[r] = "load_audio"
    /\ LET file == disk[fname[r]]
       IN  Goes(r, "load_audio", "normalize",
                Bind([frame[r] EXCEPT
                         !.loaded = file,
                         !.audio = CASE file.wave = "empty" -> "empty"
                                     [] file.wave = "silent" -> "zeros"
                                     [] OTHER -> "samples"],
                     {"audio", "sr"}))
    /\ UNCHANGED <<artifacts, disk, fname, loads, upload, figs, figsAtCall, resp, started,
                   sideVars>>

\* audio /= np.max(np.abs(audio)): np.max of an empty array raises
\* ValueError; all-zero samples give 0/0 = NaN in every sample (the
\* RuntimeWarning is filtered out by warnings.filterwarnings("ignore"))
Normalize(r) ==
    /\ pc[r] = "normalize"
    /\ IF frame[r].audio = "empty"
       THEN Raises(r, "normalize", "ValueError",
                   "zero-size array to reduction operation maximum which has no identity")
       ELSE Goes(r, "normalize", "filter",
                 [frame[r] EXCEPT !.audio =
                     IF frame[r].audio = "zeros" THEN "nan" ELSE "normalized"])
    /\ UNCHANGED <<artifacts, disk, fname, loads, upload, figs, figsAtCall, resp, started,
                   sideVars>>

\* filtered = butter_bandpass_filter(audio, fs=sr): NaN in, NaN out
Filter(r) ==
    /\ pc[r] = "filter"
    /\ Goes(r, "filter", "envelope",
            Bind([frame[r] EXCEPT !.filtered =
                     IF frame[r].audio = "nan" THEN "nan" ELSE "filtered"],
                 {"filtered"}))
    /\ UNCHANGED <<artifacts, disk, fname, loads, upload, figs, figsAtCall, resp, started,
                   sideVars>>

\* envelope = np.abs(hilbert(filtered))
Envelope(r) ==
    /\ pc[r] = "envelope"
    /\ Goes(r, "envelope", "find_peaks",
            Bind([frame[r] EXCEPT !.envelope =
                     IF frame[r].filtered = "nan" THEN "nan" ELSE "envelope"],
                 {"envelope"}))
    /\ UNCHANGED <<artifacts, disk, fname, loads, upload, figs, figsAtCall, resp, started,
                   sideVars>>

\* peaks, _ = find_peaks(...); if len(peaks) < 3: return {"error": ...}
DetectPeaks(r) ==
    /\ pc[r] = "find_peaks"
    /\ LET peaks == FindPeaks(frame[r].envelope, frame[r].loaded)
           found == Bind([frame[r] EXCEPT !.peaks = peaks], {"peaks"})
       IN  IF EnoughBeats(peaks)
           THEN Goes(r, "find_peaks", "heart_rate", found)
           ELSE Returns(r, "find_peaks", found,
                        [NoOutcome EXCEPT
                            !.kind = "error",
                            !.error = "Not enough heart beats detected"])
    /\ UNCHANGED <<artifacts, disk, fname, loads, upload, figs, figsAtCall, resp, started,
                   sideVars>>

\* hr = 60 / np.mean(np.diff(peaks)/sr); hr_status, hr_color = classify_hr_only(hr)
HeartRate(r) ==
    /\ pc[r] = "heart_rate"
    /\ LET hr == HeartRateOf(frame[r].peaks)
           cl == classify_hr_only(hr)
       IN  Goes(r, "heart_rate", "segment",
                Bind([frame[r] EXCEPT !.hr = hr, !.hr_status = cl[1],
                                      !.hr_color = cl[2]],
                     {"hr", "hr_status", "hr_color"}))
    /\ UNCHANGED <<artifacts, disk, fname, loads, upload, figs, figsAtCall, resp, started,
                   sideVars>>

\* the loop filling cycles and cycle_times
Segment(r) ==
    /\ pc[r] = "segment"
    /\ Goes(r, "segment", "score",
            Bind([frame[r] EXCEPT !.cycles = CyclesOf(frame[r].peaks),
                                  !.cycle_times = CycleTimesOf(frame[r].peaks)],
                 {"cycles", "cycle_times"}))
    /\ UNCHANGED <<artifacts, disk, fname, loads, upload, figs, figsAtCall, resp, started,
                   sideVars>>

\* X = scaler.transform(np.array([extract_mfcc(c, sr) for c in cycles]))
\* probs = model.predict_proba(X)[:, 1]
\* (scaler.transform rejects the 1-D array an empty cycle list gives)
Score(r) ==
    /\ pc[r] = "score"
    /\ IF frame[r].cycles = <<>>
       THEN Raises(r, "score", "ValueError",
                   "Expected 2D array, got 1D array instead")
       ELSE Goes(r, "score", "aggregate",
                 Bind([frame[r] EXCEPT !.probs =
                          PredictProba(frame[r].loaded, Len(frame[r].cycles))],
                      {"X", "probs"}))
    /\ UNCHANGED <<artifacts, disk, fname, loads, upload, figs, figsAtCall, resp, started,
                   sideVars>>

\* max_prob = np.max(probs) and the if/elif chain
Aggregate(r) ==
    /\ pc[r] = "aggregate"
    /\ LET max_prob == NpMax(frame[r].probs)
           risk == RiskOf(max_prob)
       IN  Goes(r, "aggregate", "subplots",
                Bind([frame[r] EXCEPT
                         !.max_prob = max_prob,
                         !.final_prediction = risk.final_prediction,
                         !.risk_level = risk.risk_level],
                     {"max_prob", "final_prediction", "risk_level"}
                         \cup risk.binds))
    /\ UNCHANGED <<artifacts, disk, fname, loads, upload, figs, figsAtCall, resp, started,
                   sideVars>>

\* fig, ax = plt.subplots(figsize=(18, 8)): a new, empty figure is registered
Subplots(r) ==
    /\ pc[r] = "subplots"
    /\ figs' = figs \cup {[num |-> NextFigNum, by |-> r, content |-> BlankFigure]}
    /\ Goes(r, "subplots", "plot_waveform", Bind(frame[r], {"fig", "ax"}))
    /\ UNCHANGED <<artifacts, disk, fname, loads, upload, figsAtCall, resp, started, sideVars>>

\* ax.plot(t, filtered, ...) down to plt.tight_layout(): reading t (and
\* max_amp) raises UnboundLocalError unless the else branch assigned them
PlotWaveform(r) ==
    /\ pc[r] = "plot_waveform"
    /\ IF "t" \in frame[r].bound
       THEN /\ figs' = {IF f.by = r
                        THEN [f EXCEPT !.content =
                                 [kind |-> "waveform",
                                  peaks |-> frame[r].peaks,
                                  spans |-> <<>>,
                                  probs |-> frame[r].probs,
                                  colors |-> SpanColors(frame[r].probs),
                                  hr10 |-> RoundHalfEven(10 * frame[r].hr.num,
                                                         frame[r].hr.den),
                                  hr_status |-> frame[r].hr_status]]
                        ELSE f : f \in figs}
            /\ Goes(r, "plot_waveform", "plot_timeline", frame[r])
       ELSE /\ figs' = figs
            /\ Raises(r, "plot_waveform", "UnboundLocalError",
                      "cannot access local variable 't' where it is not associated with a value")
    /\ UNCHANGED <<artifacts, disk, fname, loads, upload, figsAtCall, resp, started, sideVars>>

\* plot_sound_timeline(cycle_times, probs, len(filtered)/sr): registers a
\* second figure and draws one bar per cycle
PlotTimeline(r) ==
    /\ pc[r] = "plot_timeline"
    /\ figs' = figs \cup
          {[num |-> NextFigNum, by |-> r,
            content |-> [kind |-> "timeline", peaks |-> <<>>,
                         spans |-> frame[r].cycle_times,
                         probs |-> frame[r].probs,
                         colors |-> BarColors(frame[r].probs),
                         hr10 |-> 0, hr_status |-> ""]]}
    /\ Goes(r, "plot_timeline", "save_figures", frame[r])
    /\ UNCHANGED <<artifacts, disk, fname, loads, upload, figsAtCall, resp, started, sideVars>>

\* for fig_num in plt.get_fignums(): save the figure, append the PNG to
\* images, plt.close(fig).  Every open figure is saved and closed.
SaveFigures(r) ==
    /\ pc[r] = "save_figures"
    /\ LET nums == SortedNums(FigNums)
       IN  Goes(r, "save_figures", "return_result",
                Bind([frame[r] EXCEPT !.images =
                         [i \in 1..Len(nums) |-> FigureNumbered(nums[i]).content]],
                     {"images"}))
    /\ figs' = {}
    /\ UNCHANGED <<artifacts, disk, fname, loads, upload, figsAtCall, resp, started, sideVars>>

\* return {"prediction": ..., ..., "num_cycles": int(len(cycles))}
ReturnResult(r) ==
    /\ pc[r] = "return_result"
    /\ Returns(r, "return_result", frame[r],
               [NoOutcome EXCEPT
                   !.kind = "result",
                   !.prediction = frame[r].final_prediction,
                   !.probability = RoundHalfEven(frame[r].max_prob, 10),
                   !.heart_rate = RoundHalfEven(10 * frame[r].hr.num,
                                                frame[r].hr.den),
                   !.hr_status = frame[r].hr_status,
                   !.risk_level = frame[r].risk_level,
                   !.images = frame[r].images,
                   !.num_cycles = Len(frame[r].cycles)])
    /\ UNCHANGED <<artifacts, disk, fname, loads, upload, figs, figsAtCall, resp, started,
                   sideVars>>

(***************************************************************************)
(* analyze(): the call has ended                                           *)
(*   returned value v:   jsonify(v), status 200                            *)
(*   exception e:        jsonify({"error": str(e)}), status 500            *)
(* The locals of the ended call are gone.                                  *)
(***************************************************************************)
Respond(r) ==
    /\ pc[r] = "respond"
    /\ resp' = [resp EXCEPT ![r] =
                  IF outcome[r].kind = "exception"
                  THEN [status |-> 500,
                        body |-> [NoOutcome EXCEPT !.kind = "error",
                                                   !.error = outcome[r].error]]
                  ELSE [status |-> 200, body |-> outcome[r]]]
    /\ pc' = [pc EXCEPT ![r] = "done"]
    /\ frame' = [frame EXCEPT ![r] = NoFrame]
    /\ UNCHANGED <<artifacts, disk, fname, loads, upload, reached, figs, figsAtCall, outcome,
                   started, sideVars>>

\* one statement of request r's analyze_heart_sound call, or its response
Step(r) ==
        \/ LoadArtifacts(r)
        \/ LoadAudio(r)
        \/ Normalize(r)
        \/ Filter(r)
        \/ Envelope(r)
        \/ DetectPeaks(r)
        \/ HeartRate(r)
        \/ Segment(r)
        \/ Score(r)
        \/ Aggregate(r)
        \/ Subplots(r)
        \/ PlotWaveform(r)
        \/ PlotTimeline(r)
        \/ SaveFigures(r)
        \/ ReturnResult(r)
        \/ Respond(r)

\* requests handled one after another
Next ==
    \E r \in Req :
        \/ \E rec \in Recordings : Receive(r, rec, "heart.wav")
        \/ Step(r)

Spec == Init /\ [][Next]_vars

\* requests handled one after another, recordings of a steady rhythm
NextSteady ==
    \E r \in Req :
        \/ \E rec \in SteadyRecordings : Receive(r, rec, "heart.wav")
        \/ Step(r)

SpecSteady == Init /\ [][NextSteady]_vars

\* requests handled one after another, recordings around the colour
\* thresholds
NextColour ==
    \E r \in Req :
        \/ \E rec \in ColourRecordings : Receive(r, rec, "heart.wav")
        \/ Step(r)

SpecColour == Init /\ [][NextColour]_vars

\* requests handled in threads of their own, up to MaxInFlight at a time
NextOverlap ==
    \E r \in Req :
        \/ \E rec \in OverlapRecordings : \E name \in UploadNames :
               ReceiveOverlapping(r, rec, name)
        \/ Step(r)

SpecOverlap == Init /\ [][NextOverlap]_vars

(***************************************************************************)
(* Direct calls of classify_hr_only on heart rates 0.0 .. MaxHrTenths/10   *)
(***************************************************************************)
InitClassify ==
    /\ InitPipeline
    /\ NoMfccCall
    /\ InitClient
    /\ hrArg \in {[num |-> n, den |-> 10, skew |-> 0] : n \in 0..MaxHrTenths}
    /\ hrOut = ""

ClassifyCall ==
    /\ hrOut = ""
    /\ hrOut' = classify_hr_only(hrArg)[1]
    /\ UNCHANGED <<hrArg, pipeVars, mfccVars, clientVars>>

NextClassify == ClassifyCall

SpecClassify == InitClassify /\ [][NextClassify]_vars

(***************************************************************************)
(* The browser client: the submit handler of uploadForm and displayResults *)
(***************************************************************************)
\* the submit event: the panels are hidden, the loading state shown and
\* fetch('/analyze') started; nothing prevents a submission while an
\* earlier one is in flight
Submit(s) ==
    /\ submission[s].stage = "idle"
    /\ \A q \in Sub : q < s => submission[q].stage # "idle"
    /\ emptyState' = "none"
    /\ resultsActive' = FALSE
    /\ loadingActive' = TRUE
    /\ submission' = [submission EXCEPT ![s].stage = "fetching"]
    /\ UNCHANGED <<analysisCount, pipeVars, classifyVars, mfccVars>>

\* fetch and response.json() resolve (the server answers JSON with status
\* 200 or 500 alike): the 500 ms timeout is set
FetchResolves(s, data) ==
    /\ submission[s].stage = "fetching"
    /\ submission' = [submission EXCEPT ![s] =
          [stage |-> "timer", data |-> data,
           order |-> Cardinality({q \in Sub : submission[q].order > 0}) + 1]]
    /\ UNCHANGED <<emptyState, resultsActive, loadingActive, analysisCount,
                   pipeVars, classifyVars, mfccVars>>

\* the catch branch: fetch or response.json() rejected
FetchFails(s) ==
    /\ submission[s].stage = "fetching"
    /\ submission' = [submission EXCEPT ![s].stage = "finished",
                                        ![s].data = "failed"]
    /\ loadingActive' = FALSE
    /\ emptyState' = "block"
    /\ UNCHANGED <<resultsActive, analysisCount, pipeVars, classifyVars,
                   mfccVars>>

\* the timeout callback, timeouts firing in the order they were set: the
\* loading state is removed, displayResults(data) runs (with data.error it
\* alerts and returns, otherwise it fills and shows the results panel),
\* analysisCount++
TimerFires(s) ==
    /\ submission[s].stage = "timer"
    /\ \A q \in Sub : submission[q].stage = "timer" =>
                          submission[q].order >= submission[s].order
    /\ submission' = [submission EXCEPT ![s].stage = "finished"]
    /\ loadingActive' = FALSE
    /\ resultsActive' = IF submission[s].data = "error" THEN resultsActive
                                                       ELSE TRUE
    /\ analysisCount' = analysisCount + 1
    /\ UNCHANGED <<emptyState, pipeVars, classifyVars, mfccVars>>

NextClient ==
    \E s \in Sub :
        \/ Submit(s)
        \/ \E data \in {"result", "error"} : FetchResolves(s, data)
        \/ FetchFails(s)
        \/ TimerFires(s)

SpecClient == Init /\ [][NextClient]_vars

(***************************************************************************)
(* Direct calls of extract_mfcc on cycles of 1 .. MaxFrames frames         *)
(***************************************************************************)
InitMfcc ==
    /\ InitPipeline
    /\ NoClassifyCall
    /\ InitClient
    /\ mfccIn \in 1..MaxFrames
    /\ mfccOut = <<>>

MfccCall ==
    /\ mfccOut = <<>>
    /\ mfccOut' = extract_mfcc(mfccIn)
    /\ UNCHANGED <<mfccIn, pipeVars, classifyVars, clientVars>>

NextMfcc == MfccCall

SpecMfcc == InitMfcc /\ [][NextMfcc]_vars

(***************************************************************************)
(* Properties                                                              *)
(***************************************************************************)
\* request r's analyze_heart_sound call has ended and analyze has not yet
\* answered: the locals of the call are still in frame[r]
Ended(r) == pc[r] = "respond"

\* request r's call is running or has just ended
Live(r) == pc[r] \notin {"idle", "done"}

AfterPeaks ==
    {"heart_rate", "segment", "score", "aggregate", "subplots",
     "plot_waveform", "plot_timeline", "save_figures", "return_result"}

\* C1: every call that detects at least 3 peaks returns a result record
\* (prediction, probability, heart_rate, hr_status, risk_level, num_cycles),
\* whatever the risk tier; with 5 peaks and every cycle probability 0.1 the
\* result is 'Normal Heart Sound' / low with num_cycles 3.
C1_ReturnsResult ==
    \A r \in Req :
        (Ended(r) /\ Len(frame[r].peaks) >= 3) =>
            /\ outcome[r].kind = "result"
            /\ outcome[r].prediction # ""
            /\ outcome[r].hr_status # ""
            /\ outcome[r].risk_level # ""
            /\ outcome[r].num_cycles >= 1
            /\ (Len(frame[r].peaks) = 5 /\ \A i \in DOMAIN frame[r].probs :
                                              frame[r].probs[i] = 1000) =>
                   /\ outcome[r].prediction = "Normal Heart Sound"
                   /\ outcome[r].risk_level = "low"
                   /\ outcome[r].num_cycles = 3

\* C2: the prediction and risk tier chosen are the lower-bound-inclusive
\* table of the maximum probability p: p < 0.30 low, 0.30 <= p < 0.45
\* medium, 0.45 <= p < 0.60 high, p >= 0.60 critical.
C2_RiskTable ==
    \A r \in Req :
        (Live(r) /\ "aggregate" \in reached[r]) =>
            LET p == frame[r].max_prob
                v == <<frame[r].final_prediction, frame[r].risk_level>>
            IN  /\ p < 3000 => v = <<"Normal Heart Sound", "low">>
                /\ (3000 <= p /\ p < 4500) => v = <<"Murmur / Borderline", "medium">>
                /\ (4500 <= p /\ p < 6000) => v = <<"Mild Abnormality", "high">>
                /\ p >= 6000 => v = <<"Severe Abnormality", "critical">>
                /\ Cardinality({w \in {<<"Normal Heart Sound", "low">>,
                                       <<"Murmur / Borderline", "medium">>,
                                       <<"Mild Abnormality", "high">>,
                                       <<"Severe Abnormality", "critical">>} :
                                   w = v}) = 1

C2_Witness ==
    \E r \in Req :
        /\ Live(r) /\ "aggregate" \in reached[r]
        /\ frame[r].max_prob = 3000
        /\ frame[r].risk_level = "medium"

\* the verdict the code's aggregation gives a probability series
VerdictOn(series) ==
    LET k == RiskOf(NpMax(series)) IN <<k.final_prediction, k.risk_level>>

RemoveAt(s, i) == [j \in 1..(Len(s) - 1) |-> IF j < i THEN s[j] ELSE s[j + 1]]

SeriesValues == {0, 100, 1000, 2999, 3000, 4499, 4500, 5999, 6000, 9000, 10000}

\* C3: the verdict depends only on the maximum cycle probability: one cycle
\* at 0.60 or more makes it Severe Abnormality / critical, and lowering or
\* removing a cycle that is not the maximum, or adding a cycle not above
\* the maximum, leaves the verdict unchanged.
C3_MaxDecides ==
    \A r \in Req :
        (Live(r) /\ "aggregate" \in reached[r]) =>
            LET ps == frame[r].probs
                v == <<frame[r].final_prediction, frame[r].risk_level>>
            IN  /\ (\E i \in DOMAIN ps : ps[i] >= 6000) =>
                       v = <<"Severe Abnormality", "critical">>
                /\ \A i \in DOMAIN ps :
                       (\E j \in DOMAIN ps : j # i /\ ps[j] >= ps[i]) =>
                           /\ VerdictOn(RemoveAt(ps, i)) = v
                           /\ \A x \in SeriesValues :
                                  x <= ps[i] =>
                                      VerdictOn([ps EXCEPT ![i] = x]) = v
                /\ \A x \in SeriesValues :
                       (\E j \in DOMAIN ps : ps[j] >= x) =>
                           VerdictOn(Append(ps, x)) = v

C3_Witness ==
    \E r \in Req :
        /\ Live(r) /\ "aggregate" \in reached[r]
        /\ frame[r].probs = <<200, 6000, 100>>
        /\ frame[r].risk_level = "critical"

\* C4: classify_hr_only follows the table: hr < 50 Severe Bradycardia,
\* [50, 60) Mild Bradycardia, [60, 100] Normal Heart Rate, (100, 120] Mild
\* Tachycardia, (120, 150] Moderate Tachycardia, > 150 Severe Tachycardia.
\* (hrArg.num is the rate in tenths of a BPM.)
C4_HrTable ==
    (hrOut # "" /\ hrArg.den = 10) =>
        LET t == hrArg.num
        IN  /\ t < 500 => hrOut = "Severe Bradycardia"
            /\ (500 <= t /\ t < 600) => hrOut = "Mild Bradycardia"
            /\ (600 <= t /\ t <= 1000) => hrOut = "Normal Heart Rate"
            /\ (1000 < t /\ t <= 1200) => hrOut = "Mild Tachycardia"
            /\ (1200 < t /\ t <= 1500) => hrOut = "Moderate Tachycardia"
            /\ t > 1500 => hrOut = "Severe Tachycardia"

C4_Witness ==
    /\ hrArg = [num |-> 1001, den |-> 10, skew |-> 0]
    /\ hrOut = "Mild Tachycardia"

\* C5: n >= 3 peaks give exactly n-2 cycles and n-2 time spans, cycle i
\* being the slice [p[i], p[i+2]) with span (p[i]/sr, p[i+2]/sr), and the
\* result reports num_cycles = n-2.
C5_Segmentation ==
    \A r \in Req :
        (Live(r) /\ "segment" \in reached[r]) =>
            LET p == frame[r].peaks
                n == Len(p)
            IN  /\ n >= 3
                /\ Len(frame[r].cycles) = n - 2
                /\ Len(frame[r].cycle_times) = n - 2
                /\ \A i \in 1..(n - 2) :
                       /\ frame[r].cycles[i] = <<p[i], p[i + 2]>>
                       /\ frame[r].cycle_times[i][1] * SR = p[i] * 1000
                       /\ frame[r].cycle_times[i][2] * SR = p[i + 2] * 1000
                /\ outcome[r].kind = "result" => outcome[r].num_cycles = n - 2

C5_Witness ==
    \E r \in Req :
        /\ Ended(r)
        /\ outcome[r].kind = "result"
        /\ Len(frame[r].peaks) = 5
        /\ outcome[r].num_cycles = 3

\* C6: with fewer than 3 detected peaks the call ends with the
\* insufficient-beats failure and no stage after peak detection runs.
C6_InsufficientBeats ==
    \A r \in Req :
        (Live(r) /\ "find_peaks" \in reached[r] /\ Len(frame[r].peaks) < 3) =>
            /\ Ended(r)
            /\ outcome[r].kind = "error"
            /\ outcome[r].error = "Not enough heart beats detected"
            /\ reached[r] \cap AfterPeaks = {}

C6_Witness ==
    \E r \in Req :
        /\ Ended(r)
        /\ upload[r].wave = "signal"
        /\ Len(frame[r].peaks) = 2
        /\ outcome[r].kind = "error"

\* C7: a silent or empty waveform fails with InvalidAudioError at the
\* normalization stage: no later stage runs, and the failure is not
\* reported as another kind.
C7_InvalidAudio ==
    \A r \in Req :
        (Ended(r) /\ upload[r].wave \in {"silent", "empty"}
                  /\ "normalize" \in reached[r]) =>
            /\ outcome[r].kind = "exception"
            /\ outcome[r].error # "Not enough heart beats detected"
            /\ reached[r] \cap ({"filter", "envelope", "find_peaks"} \cup AfterPeaks) = {}

\* the failure kind a request is a case of
FailureKind(r) ==
    IF artifacts = "missing" THEN "model_load"
    ELSE IF upload[r].wave \in {"silent", "empty"} THEN "invalid_audio"
    ELSE IF upload[r].wave = "signal" /\ Len(upload[r].peaks) < 3
    THEN "insufficient_beats"
    ELSE "none"

\* C8: each failure kind reaches the client as a distinct failure: never
\* with a success status, and two requests failing with different kinds
\* never get the same response.
C8_DistinctFailures ==
    \A r \in Req :
        (pc[r] = "done" /\ FailureKind(r) # "none") =>
            /\ resp[r].status # 200
            /\ \A q \in Req :
                   (pc[q] = "done" /\ FailureKind(q) \notin {"none", FailureKind(r)}) =>
                       resp[q] # resp[r]

\* C9: two calls on the same waveform (and the same artifacts) end the same
\* way, with identical results, whatever ran before or between them.
C9_Deterministic ==
    \A r \in Req : \A q \in Req :
        (pc[r] = "done" /\ pc[q] = "done" /\ upload[r] = upload[q]) =>
            outcome[r] = outcome[q]

\* C10: when a call has ended, by return or by exception, the open figures
\* are those that were open when it was called.
C10_NoFigureLeftBehind ==
    \A r \in Req : Ended(r) => figs = figsAtCall[r]

\* what the waveform figure of request r's call shows: its own peaks and
\* cycle probabilities, its heart rate and status
OwnWaveform(r) ==
    [kind |-> "waveform", peaks |-> frame[r].peaks, spans |-> <<>>,
     probs |-> frame[r].probs, colors |-> SpanColors(frame[r].probs),
     hr10 |-> RoundHalfEven(10 * frame[r].hr.num, frame[r].hr.den),
     hr_status |-> frame[r].hr_status]

\* what the timeline figure of request r's call shows
OwnTimeline(r) ==
    [kind |-> "timeline", peaks |-> <<>>, spans |-> frame[r].cycle_times,
     probs |-> frame[r].probs, colors |-> BarColors(frame[r].probs),
     hr10 |-> 0, hr_status |-> ""]

\* C11: calls that overlap in time share no mutable state: a call that
\* returns a result returns the result it would return alone, its images
\* being the two figures it created itself and no figure of another call
\* (uploads stored under different names, so that each call reads its own).
C11_NoSharedState ==
    \A r \in Req :
        (/\ Ended(r)
         /\ artifacts = "present"
         /\ \A q \in Req \ {r} : fname[q] # fname[r]) =>
            /\ outcome[r].kind = "result"
            /\ outcome[r].images = <<OwnWaveform(r), OwnTimeline(r)>>

\* C12: each request analyzes the waveform uploaded in that same request,
\* also when an overlapping request uploads a file of the same name.
C12_OwnUpload ==
    \A r \in Req :
        (Live(r) /\ "load_audio" \in reached[r]) => frame[r].loaded = upload[r]

\* C13: the two artifacts are loaded once, before the first request is
\* handled, and handling requests performs no further load.
C13_LoadedOnce == started > 0 => loads = 2

\* C14: while an artifact is missing the service accepts no analysis
\* request, and no request gets to reading audio.
C14_FailFast ==
    artifacts = "missing" =>
        \A r \in Req : pc[r] = "idle" /\ "load_audio" \notin reached[r]

\* C15: extract_mfcc returns a vector of length 13 * 260 = 3380 whatever
\* the number f of frames of the cycle: the first min(f, 260) frames of
\* every coefficient row unchanged, followed by zeros up to 260 frames.
C15_FixedLength ==
    mfccOut # <<>> =>
        /\ Len(mfccOut) = 3380
        /\ Len(mfccOut) = N_MFCC * MAX_LEN
        /\ \A i \in 1..N_MFCC : \A j \in 1..MAX_LEN :
               mfccOut[(i - 1) * MAX_LEN + j] =
                   IF j <= mfccIn THEN Coef(i, j) ELSE 0

\* a cycle longer than the cap has been truncated
C15_Witness ==
    /\ mfccIn > MAX_LEN
    /\ Len(mfccOut) = N_MFCC * MAX_LEN
    /\ mfccOut[MAX_LEN] = Coef(1, MAX_LEN)

\* C16: after any sequence of earlier requests, a result holds exactly two
\* images: the waveform figure of this call, then its timeline figure.
C16_TwoOwnImages ==
    \A r \in Req :
        (Ended(r) /\ outcome[r].kind = "result") =>
            /\ Len(outcome[r].images) = 2
            /\ outcome[r].images[1] = OwnWaveform(r)
            /\ outcome[r].images[2] = OwnTimeline(r)

\* C17: the heart rate computed by a call never exceeds 150 BPM, and no
\* call reports the status 'Severe Tachycardia'.
C17_NeverAbove150 ==
    \A r \in Req :
        (Live(r) /\ "heart_rate" \in reached[r]) =>
            /\ HrLe(frame[r].hr, 150)
            /\ frame[r].hr_status # "Severe Tachycardia"

Bradycardia == {"Severe Bradycardia", "Mild Bradycardia"}

Tachycardia == {"Mild Tachycardia", "Moderate Tachycardia", "Severe Tachycardia"}

\* C18: in every result the hr_status is the heart-rate table applied to
\* the returned heart_rate (rounded to 1 decimal), and the client shows its
\* bradycardia / tachycardia recommendation exactly when hr_status is a
\* Bradycardia / Tachycardia status.
C18_StatusAgreesWithRate ==
    \A r \in Req :
        (Ended(r) /\ outcome[r].kind = "result") =>
            /\ outcome[r].hr_status =
                   classify_hr_only([num |-> outcome[r].heart_rate, den |-> 10,
                                     skew |-> 0])[1]
            /\ HrRecommendation(outcome[r].heart_rate) = "bradycardia"
                   <=> outcome[r].hr_status \in Bradycardia
            /\ HrRecommendation(outcome[r].heart_rate) = "tachycardia"
                   <=> outcome[r].hr_status \in Tachycardia

\* the risk table applied to a probability given in thousandths
RiskTable(probability) ==
    IF probability < 300 THEN <<"Normal Heart Sound", "low">>
    ELSE IF probability < 450 THEN <<"Murmur / Borderline", "medium">>
    ELSE IF probability < 600 THEN <<"Mild Abnormality", "high">>
    ELSE <<"Severe Abnormality", "critical">>

\* C19: in every result the prediction and risk_level are the risk table
\* applied to the returned probability (the maximum rounded to 3 decimals).
C19_RiskAgreesWithProbability ==
    \A r \in Req :
        (Ended(r) /\ outcome[r].kind = "result") =>
            <<outcome[r].prediction, outcome[r].risk_level>> =
                RiskTable(outcome[r].probability)

\* a result whose maximum probability is the lower bound of its tier
C19_Witness ==
    \E r \in Req :
        /\ Ended(r)
        /\ outcome[r].kind = "result"
        /\ frame[r].max_prob = 6000
        /\ outcome[r].probability = 600
        /\ outcome[r].risk_level = "critical"

\* C20: once no submission is in flight, the loading indicator is inactive
\* and exactly one of the empty-state panel and the results panel is
\* visible; after a single submission, the results panel if the response
\* had no error field, the empty-state panel after a failed fetch or a
\* response with an error field.
C20_PanelsSettle ==
    (/\ \A s \in Sub : submission[s].stage \in {"idle", "finished"}
     /\ \E s \in Sub : submission[s].stage = "finished") =>
        /\ ~loadingActive
        /\ (emptyState = "block") # resultsActive
        /\ (\A s \in Sub \ {1} : submission[s].stage = "idle") =>
               resultsActive = (submission[1].data = "result")

\* C21: the colouring of the two figures of a result agrees for every
\* cycle: its timeline bar is red exactly when its systole and diastole
\* spans are shaded red and darkred in the waveform figure, and exactly
\* when its probability alone is in risk tier high or critical.
C21_ColoursAgree ==
    \A r \in Req :
        (Ended(r) /\ outcome[r].kind = "result"
                  /\ Len(outcome[r].images) = 2) =>
            LET waveform == outcome[r].images[1]
                timeline == outcome[r].images[2]
            IN  \A i \in DOMAIN frame[r].probs :
                    /\ (timeline.colors[i] = "red")
                           <=> (waveform.colors[i] = <<"red", "darkred">>)
                    /\ (timeline.colors[i] = "red")
                           <=> (RiskOf(frame[r].probs[i]).risk_level
                                    \in {"high", "critical"})

====
